---- MODULE Spec2Model ----
(***************************************************************************)
(* Model of "Website Scraper/gui_scraper.py": the adaptive scraper's       *)
(* orchestrator (AdaptiveScraperApp.run), the universal convergence loop   *)
(* (UniversalEngine.scroll_until_stable), the virtualized-container        *)
(* strategy (FivePaisaExtractor.container_scroll_until_stable) and the     *)
(* host's STOP handler (on_stop).                                          *)
(*                                                                         *)
(* The scrape task is one sequential coroutine; its position is pc.  The   *)
(* page (PageMutate) and the host (OnStop) are the environment: they act   *)
(* between two steps of the task, i.e. at its suspension points.           *)
(***************************************************************************)
EXTENDS Integers, Sequences, FiniteSets, TLC

\* ------------------------------------------------------------------------
\* Thresholds of the code.  The literals of the source are far beyond what
\* can be enumerated, so each is scaled down; every property below is stated
\* in terms of the name, never of the number.
\* ------------------------------------------------------------------------
\* MAX_SCROLL_STAGNANT = 20 in the source (line 22): no-growth cycles that
\* end scroll_until_stable.
MAX_SCROLL_STAGNANT == 2
\* "cycles > 500" in the source (line 307).
CYCLE_CAP == 3
\* "len(combined) > 60000" in the source (line 307).
RECORD_CAP == 2
\* max_attempts=2000 at the call of container_scroll_until_stable (line 575).
MAX_ATTEMPTS == 7
\* check_every=3 at the call of container_scroll_until_stable (line 575).
CHECK_EVERY == 3
\* "stagnant >= 30" in the source (line 449).
FP_STAGNANT == 2
\* "len(collected) >= 8200" in the source (line 456).
CONTAINER_CAP == 3
\* "len(best_result) >= 8000" in the source (line 460).
LARGE_RESULT == 3
\* Largest table count the page reports (document.querySelectorAll('table')).
MaxTables == 2
\* Drive steps counted after the flag was set (history counter, saturating).
MaxLate == 2

None == "None"

\* ------------------------------------------------------------------------
\* Sequence and text helpers
\* ------------------------------------------------------------------------
RECURSIVE Join(_, _)
\* sep.join(parts) of Python
Join(parts, sep) ==
    IF parts = <<>> THEN ""
    ELSE IF Len(parts) = 1 THEN parts[1]
    ELSE parts[1] \o sep \o Join(Tail(parts), sep)

RECURSIVE SeqToSet(_)
SeqToSet(s) == IF s = <<>> THEN {} ELSE {Head(s)} \cup SeqToSet(Tail(s))

\* Characters of the names on the page; Lower is str.lower() on them.
Chars == {" ", "A", "a", "B", "b", "C", "c"}
Lower(ch) ==
    CASE ch = "A" -> "a"
      [] ch = "B" -> "b"
      [] ch = "C" -> "c"
      [] OTHER -> ch

RECURSIVE LStrip(_)
LStrip(s) == IF s # <<>> /\ Head(s) = " " THEN LStrip(Tail(s)) ELSE s
RECURSIVE RStrip(_)
RStrip(s) ==
    IF s # <<>> /\ s[Len(s)] = " " THEN RStrip(SubSeq(s, 1, Len(s) - 1)) ELSE s
\* str.strip() of Python and String.prototype.trim() of the page script
Strip(s) == RStrip(LStrip(s))
\* str.lower()
LowerStr(s) == [i \in 1..Len(s) |-> Lower(s[i])]

\* ------------------------------------------------------------------------
\* Python dicts as ordered sequences of <<key, value>> pairs
\* ------------------------------------------------------------------------
DictKeys(d) == [i \in 1..Len(d) |-> d[i][1]]
DictHas(d, k) == \E i \in 1..Len(d) : d[i][1] = k
DictGet(d, k, default) ==
    IF DictHas(d, k) THEN d[CHOOSE i \in 1..Len(d) : d[i][1] = k][2] ELSE default
\* d[k] = v : overwrite in place when the key exists, append otherwise
DictSet(d, k, v) ==
    IF DictHas(d, k)
    THEN [i \in 1..Len(d) |-> IF d[i][1] = k THEN <<k, v>> ELSE d[i]]
    ELSE Append(d, <<k, v>>)

\* ------------------------------------------------------------------------
\* The page: what the DOM shows to the extraction scripts.  innerText values
\* are taken as already trimmed; every text is far shorter than the 200
\* characters at which repr(r)[:200] cuts.
\* ------------------------------------------------------------------------
R1  == [cells |-> <<"a", "1">>, links |-> <<>>, imgs |-> <<>>]
\* same cell text as R1 (same key), other links and images
R1b == [cells |-> <<"a", "1">>, links |-> <<"http://h/x">>, imgs |-> <<"http://h/i.png">>]
R2  == [cells |-> <<"b", "2">>, links |-> <<>>, imgs |-> <<"rel.png">>]
\* no cells: keyed by its links
R3  == [cells |-> <<>>, links |-> <<"http://h/y">>, imgs |-> <<>>]
\* neither cell text nor links: keyed by repr(r)
R4  == [cells |-> <<"">>, links |-> <<>>, imgs |-> <<"data:j.png">>]
DomRowSeqs == { <<>>, <<R1>>, <<R1b, R2>>, <<R3, R4>>, <<R1, R2, R3>> }
DomHeads == { <<>>, <<"Name", "Value">> }
\* the thead texts a table may show when its headers are read after the
\* convergence loop: also a header row that repeats a name
DomHeadsAtRead == DomHeads \cup { <<"Name", "Name">> }
\* a <table>: its thead th texts and its tbody rows; present is FALSE when no
\* element matches the selector
NoTable == [present |-> FALSE, heads |-> <<>>, rows |-> <<>>]
DomTables == {NoTable} \cup [present : {TRUE}, heads : DomHeads, rows : DomRowSeqs]
\* the tables of a page with several tables
DomTablesAt ==
    { NoTable,
      [present |-> TRUE, heads |-> <<>>, rows |-> <<>>],
      [present |-> TRUE, heads |-> <<>>, rows |-> <<R1b, R2>>],
      [present |-> TRUE, heads |-> <<"Name", "Value">>, rows |-> <<R1>>],
      [present |-> TRUE, heads |-> <<"Name", "Value">>, rows |-> <<R3, R4>>] }

I1  == [title |-> "t1", text |-> "x", links |-> <<>>, imgs |-> <<>>]
I1b == [title |-> "t1", text |-> "x", links |-> <<"http://h/x">>, imgs |-> <<"http://h/i.png">>]
I2  == [title |-> "t2", text |-> "", links |-> <<>>, imgs |-> <<>>]
\* a node without title element and without paragraphs
I3  == [title |-> "", text |-> "", links |-> <<"http://h/y">>, imgs |-> <<>>]
DomItemSeqs == { <<>>, <<I1>>, <<I1b, I2>>, <<I3>>, <<I1, I2, I3>> }

\* rows of 'table tbody tr' as the virtualized extractor reads them: whether
\* the row has an anchor, the anchor's textContent, the img src ("" = none)
S1  == [has_a |-> TRUE, text |-> <<"A", "b", "c">>, logo |-> "http://h/l.png"]
S1b == [has_a |-> TRUE, text |-> <<" ", "a", "B", "c", " ">>, logo |-> ""]
S2  == [has_a |-> TRUE, text |-> <<"B", "c", "a">>, logo |-> ""]
S3  == [has_a |-> TRUE, text |-> <<"C", "a", "b">>, logo |-> ""]
\* too short a name, and a row without anchor
S4  == [has_a |-> TRUE, text |-> <<"a", "b">>, logo |-> ""]
S5  == [has_a |-> FALSE, text |-> <<>>, logo |-> ""]
DomStockSeqs == { <<>>, <<S1>>, <<S1b, S2>>, <<S4, S5>>, <<S1, S2, S3>> }

\* ------------------------------------------------------------------------
\* Extraction scripts (pure functions of the DOM)
\* ------------------------------------------------------------------------
\* 'Column_' + (i+1) for the td of the first body row
ColumnName(i) == "Column_" \o ToString(i)
\* headers synthesized from the widest body row instead of the first
SynthHeaders_WidestRow(t) ==
    IF t.rows = <<>> THEN <<>>
    ELSE LET w == CHOOSE n \in { Len(t.rows[i].cells) : i \in 1..Len(t.rows) } :
                      \A i \in 1..Len(t.rows) : Len(t.rows[i].cells) <= n
         IN [i \in 1..w |-> ColumnName(i)]

SynthHeaders(t) ==
    IF t.rows = <<>> THEN <<>>
    ELSE [i \in 1..Len(t.rows[1].cells) |-> ColumnName(i)]
TableHeaders(t) == IF t.heads = <<>> THEN SynthHeaders(t) ELSE t.heads

\* An extraction result: kind "none" is Python's None, "table" the dict
\* {headers, rows}, "list" a list of items (in rows).
NoData == [kind |-> "none", headers |-> <<>>, rows |-> <<>>]

\* UniversalEngine.extract_table_js: null when no table, None on exception
ExtractTableJs(t, raises) ==
    IF raises \/ ~t.present THEN NoData
    ELSE [kind |-> "table", headers |-> TableHeaders(t), rows |-> t.rows]

\* UniversalEngine.extract_list_items_js: [] on exception
ExtractListItemsJs(items, raises) ==
    [kind |-> "list", headers |-> <<>>, rows |-> IF raises THEN <<>> ELSE items]

\* the header read of run() after convergence: [] when the table is gone or
\* the evaluation raises
ReadHeaders(t, raises) == IF raises \/ ~t.present THEN <<>> ELSE TableHeaders(t)

RECURSIVE StockRows(_)
\* the page script of extract_from_table_selector
StockRows(rows) ==
    IF rows = <<>> THEN <<>>
    ELSE LET row  == Head(rows)
             name == Strip(row.text)
             rest == StockRows(Tail(rows))
         IN IF row.has_a /\ name # <<>> /\ Len(name) > 2
            THEN <<[company_name |-> name,
                    logo_url |-> IF row.logo = "" THEN "N/A" ELSE row.logo]>> \o rest
            ELSE rest
\* FivePaisaExtractor.extract_from_table_selector: [] on exception
ExtractFromTableSelector(rows, raises) == IF raises THEN <<>> ELSE StockRows(rows)

\* ------------------------------------------------------------------------
\* Dedup keys and merges
\* ------------------------------------------------------------------------
\* repr(r)[:200]
ReprRow(r) ==
    "{'cells': [" \o Join(r.cells, ", ") \o "], 'links': [" \o Join(r.links, ", ")
        \o "], 'imgs': [" \o Join(r.imgs, ", ") \o "]}"
\* the key of a table row (lines 284-286)
RowKey(r) ==
    LET k == IF r.cells # <<>> THEN Join(r.cells, "|") ELSE Join(r.links, "|")
    IN IF k = "" THEN ReprRow(r) ELSE k
\* the key of a list item (line 292)
ItemKey(it) == it.title \o "|" \o it.text
\* a key that is the name as extracted
CompanyKey_AsExtracted(c) == c.company_name
\* the key of a company record (line 441)
CompanyKey(c) == LowerStr(Strip(c.company_name))

\* a merge that appends every row without looking at its key
MergeRows_NoKeyCheck(acc, seen, rows) ==
    [combined |-> acc \o rows, seen |-> seen \cup { RowKey(rows[i]) : i \in 1..Len(rows) }]

RECURSIVE MergeRows(_, _, _)
\* lines 283-289: append the rows whose key was not seen, in page order
MergeRows(acc, seen, rows) ==
    IF rows = <<>> THEN [combined |-> acc, seen |-> seen]
    ELSE LET r == Head(rows)
             key == RowKey(r)
         IN IF key \notin seen
            THEN MergeRows(Append(acc, r), seen \cup {key}, Tail(rows))
            ELSE MergeRows(acc, seen, Tail(rows))

\* a merge that looks at the items' keys within one pass and never records them
MergeItems_KeysNotRecorded(acc, seen, items) ==
    [combined |-> acc \o SelectSeq(items, LAMBDA it : ItemKey(it) \notin seen),
     seen |-> seen]

RECURSIVE MergeItems(_, _, _)
\* lines 291-295
MergeItems(acc, seen, items) ==
    IF items = <<>> THEN [combined |-> acc, seen |-> seen]
    ELSE LET it == Head(items)
             key == ItemKey(it)
         IN IF key \notin seen
            THEN MergeItems(Append(acc, it), seen \cup {key}, Tail(items))
            ELSE MergeItems(acc, seen, Tail(items))

\* a merge that keeps the records the page shows now
MergeCompanies_PageOnly(acc, seen, batch) ==
    [combined |-> SelectSeq(batch, LAMBDA c : CompanyKey(c) # <<>>),
     seen |-> seen \cup { CompanyKey(batch[i]) : i \in 1..Len(batch) }]

RECURSIVE MergeCompanies(_, _, _)
\* lines 440-444
MergeCompanies(acc, seen, batch) ==
    IF batch = <<>> THEN [combined |-> acc, seen |-> seen]
    ELSE LET c == Head(batch)
             key == CompanyKey(c)
         IN IF key # <<>> /\ key \notin seen
            THEN MergeCompanies(Append(acc, c), seen \cup {key}, Tail(batch))
            ELSE MergeCompanies(acc, seen, Tail(batch))

\* a merge that starts over when the extraction brought nothing
MergeData_ResetOnEmpty(acc, seen, data) ==
    IF data.rows = <<>> THEN [combined |-> <<>>, seen |-> {}]
    ELSE IF data.kind = "table" THEN MergeRows(acc, seen, data.rows)
    ELSE MergeItems(acc, seen, data.rows)

\* lines 281-295: the merge of one cycle's extraction result ("if data:" is
\* false for None and for an empty list, true for every dict)
MergeData(acc, seen, data) ==
    IF data.kind = "table" THEN MergeRows(acc, seen, data.rows)
    ELSE IF data.kind = "list" /\ data.rows # <<>> THEN MergeItems(acc, seen, data.rows)
    ELSE [combined |-> acc, seen |-> seen]

\* ------------------------------------------------------------------------
\* Data frames: column names and rows of values aligned with them
\* ------------------------------------------------------------------------
RECURSIVE UnionKeys(_, _)
\* the columns of pd.DataFrame(list of dicts): keys by first appearance
UnionKeys(cols, recs) ==
    IF recs = <<>> THEN cols
    ELSE LET ks == DictKeys(Head(recs))
             new == SelectSeq(ks, LAMBDA k : k \notin SeqToSet(cols))
         IN UnionKeys(cols \o new, Tail(recs))
FrameFromRecords(recs) ==
    LET cols == UnionKeys(<<>>, recs)
    IN [cols |-> cols,
        rows |-> [i \in 1..Len(recs) |->
                    [j \in 1..Len(cols) |-> DictGet(recs[i], cols[j], "NaN")]]]
\* a copy that keeps the columns and drops the rows
CopyFrame_ColumnsOnly(df) == [cols |-> df.cols, rows |-> <<>>]
\* DataFrame.copy(): a frame of its own with the same columns and rows
CopyFrame(df) == [cols |-> df.cols, rows |-> df.rows]
\* df.insert(0, "serial_no", range(1, len(df) + 1))
InsertSerial(df) ==
    [cols |-> <<"serial_no">> \o df.cols,
     rows |-> [i \in 1..Len(df.rows) |-> <<ToString(i)>> \o df.rows[i]]]

RECURSIVE CellsToRec(_, _, _, _)
\* lines 656-658 / 688-690: rec[col] = c for each cell, in order
CellsToRec(rec, cells, i, headers) ==
    IF i > Len(cells) THEN rec
    ELSE CellsToRec(DictSet(rec, IF i <= Len(headers) THEN headers[i] ELSE ColumnName(i),
                            cells[i]),
                    cells, i + 1, headers)
\* lines 686-692: one output record of a table row
RowToRecord(r, headers) ==
    DictSet(DictSet(CellsToRec(<<>>, r.cells, 1, headers),
                    "links", Join(r.links, ", ")),
            "images", Join(r.imgs, ", "))
\* line 706 / 720: one output record of a list item
ItemToRecord(it) ==
    << <<"title", it.title>>, <<"text", it.text>>,
       <<"links", Join(it.links, ", ")>>, <<"images", Join(it.imgs, ", ")>> >>
\* pd.DataFrame(companies): the dicts of the page script
CompanyToRecord(c) ==
    << <<"company_name", c.company_name>>, <<"logo_url", c.logo_url>> >>

SheetOfRows(rows, headers) ==
    InsertSerial(FrameFromRecords([i \in 1..Len(rows) |-> RowToRecord(rows[i], headers)]))
SheetOfItems(items) ==
    InsertSerial(FrameFromRecords([i \in 1..Len(items) |-> ItemToRecord(items[i])]))
SheetOfCompanies(cs) ==
    InsertSerial(FrameFromRecords([i \in 1..Len(cs) |-> CompanyToRecord(cs[i])]))

\* ------------------------------------------------------------------------
\* Shape detection: ordered probe chains.  A probe outcome is the match
\* count of locator(sel).count(), or -1 when the probe raises.
\* ------------------------------------------------------------------------
TableCandidates ==
    <<"table.table", "table.data-table", "div.table-responsive table", "table">>
NextCssCandidates ==
    <<"a[rel='next']", "a[aria-label='Next']", "button[aria-label='Next']",
      ".pagination a.next", ".pagination li.next a", ".next", ".pager-next",
      "button[title='Next']", "a[title='Next']", "a.next", ".pg-next", ".page-next">>
NextXpathCandidates ==
    <<"//a[next]", "//button[next]", "//a[glyph]", "//button[glyph]">>
ListCandidates ==
    <<".quote", ".card", ".list-item", ".item", "article", "ul li", ".media",
      ".search-result", ".result", ".post">>

\* the outcomes of n probes: probe e raises, probe one matches once, probe h
\* matches twice, the others match nothing (0 = no such probe)
ProbeVector(n, e, one, h) ==
    [i \in 1..n |-> IF i = e THEN -1 ELSE IF i = h THEN 2 ELSE IF i = one THEN 1 ELSE 0]
\* the vectors tried: the first probe may raise or match once, the last may
\* match twice
ProbeVectors(n) ==
    { ProbeVector(n, e, one, h) : e \in {0, 1}, one \in {0, 1}, h \in {0, n} }
\* the same without single matches, for the chains whose threshold is 1
ProbeVectors2(n) == { ProbeVector(n, e, 0, h) : e \in {0, 1}, h \in {0, n} }

\* a chain that a raising probe ends: nothing after it is probed
FirstAtLeast_StopsAtRaise(out, k) ==
    IF \E i \in 1..Len(out) : out[i] >= k /\ \A j \in 1..(i - 1) : out[j] \in 0..(k - 1)
    THEN CHOOSE i \in 1..Len(out) : out[i] >= k /\ \A j \in 1..(i - 1) : out[j] \in 0..(k - 1)
    ELSE 0

\* index of the first probe, in order, whose count reaches k; 0 when none
FirstAtLeast(out, k) ==
    IF \E i \in 1..Len(out) : out[i] >= k
    THEN CHOOSE i \in 1..Len(out) : out[i] >= k /\ \A j \in 1..(i - 1) : out[j] < k
    ELSE 0

\* UniversalEngine.detect_best_table_selector; out has one outcome per
\* candidate and a last one for the trailing probe of "table"
DetectBestTableSelector(out) ==
    LET i == FirstAtLeast(SubSeq(out, 1, Len(TableCandidates)), 1)
    IN IF i > 0 THEN TableCandidates[i]
       ELSE IF out[Len(TableCandidates) + 1] > 0 THEN "table"
       ELSE None

NoNext == <<>>
\* UniversalEngine.detect_next_button
DetectNextButton(css, xp) ==
    LET i == FirstAtLeast(css, 1)
        j == FirstAtLeast(xp, 1)
    IN IF i > 0 THEN <<"css", NextCssCandidates[i]>>
       ELSE IF j > 0 THEN <<"xpath", NextXpathCandidates[j]>>
       ELSE NoNext

\* The class census of the page's div elements, in document order of first
\* appearance: <<class tokens, number of divs>>; raises = the script failed.
Censuses ==
    { [raises |-> TRUE, counts |-> <<>>],
      [raises |-> FALSE, counts |-> <<>>],
      [raises |-> FALSE, counts |-> << <<<<>>, 4>>, <<<<"nav">>, 2>>, <<<<"card", "big">>, 3>>,
                                       <<<<"row">>, 5>> >>] }
\* counts of p and of h1..h4 elements; raises = a locator failed
Proses ==
    { [raises |-> TRUE, p |-> 7, h |-> 1], [raises |-> FALSE, p |-> 7, h |-> 1],
      [raises |-> FALSE, p |-> 6, h |-> 1], [raises |-> FALSE, p |-> 7, h |-> 0] }

\* the page script of lines 212-223: class sets found >= 3 times, as selectors
CensusSelectors(counts) ==
    LET kept == SelectSeq(counts, LAMBDA c : c[2] >= 3 /\ c[1] # <<>>)
    IN [i \in 1..Len(kept) |-> "." \o Join(kept[i][1], ".")]

\* UniversalEngine.detect_list_selector after its scroll pulses
DetectListSelector(out, census, prose) ==
    LET i == FirstAtLeast(out, 2)
        classes == IF census.raises THEN <<>> ELSE CensusSelectors(census.counts)
    IN IF i > 0 THEN ListCandidates[i]
       ELSE IF classes # <<>> THEN classes[1]
       ELSE IF ~prose.raises /\ prose.p > 6 /\ prose.h > 0 THEN "body"
       ELSE None

\* FivePaisaExtractor.find_candidate_containers
ContainerCandidates ==
    <<".stock_table_wrapper", ".table-responsive", "div[class*='MuiBox-root']",
      "div[class*='table']", "div[class*='virtualized']",
      "div[class*='react-virtualized']", "div[class*='list']", "table">>
\* what the overflow census returns (already cut to 8 entries); raises = failed
OverflowCensuses ==
    { [raises |-> TRUE, sels |-> <<>>],
      [raises |-> FALSE, sels |-> <<".stock_table_wrapper", ".grid", "body">>] }
RECURSIVE AppendNew(_, _)
\* lines 357-359: append the entries not yet in found
AppendNew(found, extra) ==
    IF extra = <<>> THEN found
    ELSE AppendNew(IF Head(extra) # "" /\ Head(extra) \notin SeqToSet(found)
                   THEN Append(found, Head(extra)) ELSE found,
                   Tail(extra))
FindCandidateContainers(out, census) ==
    LET hits == SelectSeq([i \in 1..Len(ContainerCandidates) |-> i], LAMBDA i : out[i] > 0)
        found == [k \in 1..Len(hits) |-> ContainerCandidates[hits[k]]]
        more == IF census.raises THEN found ELSE AppendNew(found, census.sels)
    IN IF "body" \in SeqToSet(more) THEN more ELSE Append(more, "body")

\* ------------------------------------------------------------------------
\* State
\* ------------------------------------------------------------------------
VARIABLES
    pc,                 \* position of the scrape task in run()
    outcome,            \* how run() ended ("" while it runs)
    stop_event,         \* the threading.Event shared with the host
    browser_open,       \* the playwright handles are held
    download_images,    \* option of the run
    is_5paisa,          \* the virtualization marker was found
    sheets,             \* sheet name -> data frame (local of run)
    partial_collected,  \* sheet name -> copy of the data frame
    excel_file,         \* the workbook on disk: [exists, sheets]
    run_saves,          \* workbook contents written by the scrape task, in order
    host_saves,         \* workbook contents written by on_stop on the host thread
    sink_failed,        \* a workbook write of the scrape task raised
    table_count, table_sel, list_sel, next_btn,   \* detection results
    detected,           \* the universal engine's detection has run
    probed,             \* the probe outcomes of the detection pass under way
    pulsed,             \* detect_list_selector has started a forced scroll pulse
    mode,               \* what scroll_until_stable extracts: "table" or "list"
    branches,           \* the ladder branches entered, in order
    mt_idx,             \* the index of the multi-table loop
    seen_keys, combined, last_count, stagnant, cycles,  \* scroll_until_stable
    candidates, ci, fp_seen, collected, fp_last_count, fp_stagnant, scrolls,
    best_result,        \* container_scroll_until_stable
    dom_table, dom_items, dom_stocks,  \* the page
    stocks_cumulative,  \* no change of the virtualized rows dropped a name so far
    fp_idle,            \* extractions of the strategy since the last added record
    late_drives,        \* drive steps started while the flag was set
    same_cycles,        \* latest cycles that extracted the same, unchanged page
    discovered,         \* raw records merged into a result set by a loop
    stop_seen,          \* the loop in which the task observed the flag ("" = none)
    start_btn, stop_btn,  \* the state of the two buttons: "normal" or "disabled"
    holder_evt          \* stop_event_holder.get("evt"): None or "event"

vars ==
    << pc, outcome, stop_event, browser_open, download_images,
       is_5paisa, sheets, partial_collected, excel_file, run_saves, host_saves,
       sink_failed, table_count, table_sel, list_sel, next_btn, detected, probed, pulsed,
       mode, branches, mt_idx,
       seen_keys, combined, last_count, stagnant, cycles,
       candidates, ci, fp_seen, collected, fp_last_count, fp_stagnant, scrolls,
       best_result, dom_table, dom_items, dom_stocks, stocks_cumulative, fp_idle,
       late_drives, same_cycles, discovered, stop_seen,
       start_btn, stop_btn, holder_evt >>

guiVars == << start_btn, stop_btn, holder_evt >>
runVars == << sheets, partial_collected >>
sinkVars == << excel_file, run_saves, host_saves, sink_failed >>
detectVars ==
    << table_count, table_sel, list_sel, next_btn, detected, probed, pulsed, mode >>
scrollVars == << seen_keys, combined, last_count, stagnant, cycles, same_cycles >>
fpVars ==
    << candidates, ci, fp_seen, collected, fp_last_count, fp_stagnant, scrolls,
       best_result, fp_idle >>
domVars == << dom_table, dom_items, dom_stocks, stocks_cumulative >>

NoSheets == <<>>
NoProbes ==
    [table |-> <<>>, list |-> <<>>, css |-> <<>>, xp |-> <<>>,
     census |-> [raises |-> TRUE, counts |-> <<>>],
     prose |-> [raises |-> TRUE, p |-> 7, h |-> 1]]
NoFile == [exists |-> FALSE, sheets |-> NoSheets]

\* AdaptiveScraperApp.__init__ and the state in which on_start has started the
\* worker thread
Init ==
    /\ pc = "idle"
    /\ outcome = ""
    /\ stop_event = FALSE
    /\ browser_open = FALSE
    /\ download_images \in BOOLEAN
    /\ is_5paisa = FALSE
    /\ sheets = NoSheets
    /\ partial_collected = NoSheets
    /\ excel_file = NoFile
    /\ run_saves = <<>>
    /\ host_saves = <<>>
    /\ sink_failed = FALSE
    /\ table_count = 0
    /\ table_sel = None
    /\ list_sel = None
    /\ next_btn = NoNext
    /\ detected = FALSE
    /\ probed = NoProbes
    /\ pulsed = FALSE
    /\ mode = ""
    /\ branches = <<>>
    /\ mt_idx = 0
    /\ seen_keys = {}
    /\ combined = <<>>
    /\ last_count = 0
    /\ stagnant = 0
    /\ cycles = 0
    /\ candidates = <<>>
    /\ ci = 0
    /\ fp_seen = {}
    /\ collected = <<>>
    /\ fp_last_count = 0
    /\ fp_stagnant = 0
    /\ scrolls = 0
    /\ best_result = <<>>
    /\ dom_table = NoTable
    /\ dom_items = <<>>
    /\ dom_stocks = <<>>
    /\ stocks_cumulative = TRUE
    /\ fp_idle = 0
    /\ late_drives = 0
    /\ same_cycles = 0
    /\ discovered = {}
    /\ stop_seen = ""
    /\ start_btn = "normal"
    /\ stop_btn = "disabled"
    /\ holder_evt = None

\* a drive step starts: counted when the flag is already set
Drive(n) == IF stop_event THEN IF late_drives + n > MaxLate THEN MaxLate ELSE late_drives + n
            ELSE late_drives

\* a partial save that writes a workbook even when nothing was collected
SavePartialResults_WritesEmpty(ok) ==
    IF ~ok THEN excel_file ELSE [exists |-> TRUE, sheets |-> partial_collected]

\* a partial save that leaves the workbook as it was
SavePartialResults_Skipped(ok) == excel_file

\* AdaptiveScraperApp.save_partial_results: the workbook it leaves on disk;
\* ok = the writer did not raise
SavePartialResults(ok) ==
    IF partial_collected = NoSheets \/ ~ok THEN excel_file
    ELSE [exists |-> TRUE, sheets |-> partial_collected]
\* lines 527-534: the writer raised inside save_partial_results
SaveFailed(ok) == partial_collected # NoSheets /\ ~ok
\* the contents it wrote, appended to a log of writes
SaveLog(log, ok) ==
    IF partial_collected = NoSheets \/ ~ok THEN log ELSE Append(log, partial_collected)

\* ------------------------------------------------------------------------
\* run(): browser start, navigation, marker
\* ------------------------------------------------------------------------
\* the handles of a browser session
AllHandles == {"_pw", "browser", "page"}
\* start_browser (lines 486-492): the handles assigned when step 'failed' is
\* the first to raise (1 = playwright start, 2 = launch, 3 = new_context or
\* new_page, 0 = no step raises)
StartedHandles(failed) ==
    CASE failed = 1 -> {}
      [] failed = 2 -> {"_pw"}
      [] failed = 3 -> {"_pw", "browser"}
      [] OTHER -> AllHandles
\* a stop that closes the page only
StopBrowser_PageOnly(held) == held \ {"page"}
\* stop_browser (lines 498-520): closes what is held, swallowing every error,
\* and sets the three handles to None in its finally clause
StopBrowser(held) == {}
\* the handles behind browser_open
Handles(open) == IF open THEN AllHandles ELSE {}
Held(handles) == handles # {}

\* lines 539-541 with start_browser (485-496)
StartBrowser ==
    /\ pc = "start"
    /\ \E failed \in 0..3 :
         IF failed = 0
         THEN /\ browser_open' = Held(StartedHandles(failed))
              /\ pc' = "goto"
              /\ outcome' = outcome
         ELSE /\ browser_open' = Held(StopBrowser(StartedHandles(failed)))
              /\ pc' = "done"
              /\ outcome' = "BrowserFailed"
    /\ UNCHANGED << stop_event, guiVars, download_images, is_5paisa, runVars,
                    sinkVars, detectVars, branches, mt_idx, scrollVars, fpVars,
                    domVars, late_drives, discovered, stop_seen >>

\* lines 543-546: the first goto (domcontentloaded); a PWError leads to the
\* retry, any other exception reaches the handler of line 778
Navigate ==
    /\ pc = "goto"
    /\ \E first \in {"ok", "pwerror", "other"} :
         pc' = CASE first = "ok" -> "marker"
                 [] first = "pwerror" -> "goto_retry"
                 [] OTHER -> "except"
    /\ UNCHANGED << outcome, stop_event, guiVars, browser_open, download_images, is_5paisa,
                    runVars, sinkVars, detectVars, branches, mt_idx, scrollVars, fpVars,
                    domVars, late_drives, discovered, stop_seen >>

\* lines 547-553: the retry with networkidle; when it raises the browser is
\* stopped and run returns
NavigateRetry ==
    /\ pc = "goto_retry"
    /\ \E second \in BOOLEAN :
         IF second
         THEN /\ pc' = "marker"
              /\ UNCHANGED << browser_open, outcome >>
         ELSE /\ browser_open' = Held(StopBrowser(Handles(browser_open)))
              /\ pc' = "done"
              /\ outcome' = "NavFailed"
    /\ UNCHANGED << stop_event, guiVars, download_images, is_5paisa, runVars,
                    sinkVars, detectVars, branches, mt_idx, scrollVars, fpVars,
                    domVars, late_drives, discovered, stop_seen >>

\* a gate that starts the universal engine whatever the sheets hold
NeedsUniversal_Always(sh) == TRUE

\* line 586: "if not sheets"
NeedsUniversal(sh) == sh = NoSheets

\* lines 555-572: the marker by URL or by DOM query (an exception of the
\* query leaves the flag False)
DetectMarker ==
    /\ pc = "marker"
    /\ \E in_url \in BOOLEAN, marker \in {"true", "false", "raises"} :
         is_5paisa' = (in_url \/ marker = "true")
    /\ pc' = IF is_5paisa' THEN "fp_find"
             ELSE IF NeedsUniversal(sheets) THEN "detect_tables" ELSE "stop_check"
    /\ branches' = IF is_5paisa' THEN <<"virtualized">> ELSE <<>>
    /\ UNCHANGED << outcome, stop_event, guiVars, browser_open, download_images,
                    runVars, sinkVars, detectVars, mt_idx, scrollVars,
                    fpVars, domVars, late_drives, discovered, stop_seen >>

\* ------------------------------------------------------------------------
\* The virtualized-container strategy (FivePaisaExtractor)
\* ------------------------------------------------------------------------
\* lines 574-575, 313-317 and 420-422: a fresh extractor, its candidates
FpFindCandidates ==
    /\ pc = "fp_find"
    /\ \E out \in ProbeVectors2(Len(ContainerCandidates)), census \in OverflowCensuses :
         candidates' = FindCandidateContainers(out, census)
    /\ fp_seen' = {}
    /\ best_result' = <<>>
    /\ ci' = 1
    /\ fp_idle' = 0
    /\ pc' = "fp_cand"
    /\ UNCHANGED << outcome, stop_event, guiVars, browser_open, download_images,
                    is_5paisa, runVars, sinkVars, detectVars, branches, mt_idx,
                    scrollVars, collected, fp_last_count, fp_stagnant, scrolls,
                    domVars, late_drives, discovered, stop_seen >>

\* lines 423-431: the head of the loop over the candidates
FpNextContainer ==
    /\ pc = "fp_cand"
    /\ IF ci > Len(candidates)
       THEN /\ pc' = "fp_done"
            /\ UNCHANGED << collected, fp_last_count, fp_stagnant, scrolls, stop_seen >>
       ELSE IF stop_event
       THEN /\ pc' = "fp_done"
            /\ stop_seen' = IF stop_seen = "" THEN "fp_cand" ELSE stop_seen
            /\ UNCHANGED << collected, fp_last_count, fp_stagnant, scrolls >>
       ELSE /\ pc' = "fp_loop"
            /\ collected' = <<>>
            /\ fp_last_count' = 0
            /\ fp_stagnant' = 0
            /\ scrolls' = 0
            /\ UNCHANGED stop_seen
    /\ UNCHANGED << outcome, stop_event, guiVars, browser_open, download_images,
                    is_5paisa, runVars, sinkVars, detectVars, branches, mt_idx,
                    scrollVars, candidates, ci, fp_seen, best_result, fp_idle,
                    domVars, late_drives, discovered >>

\* lines 432-434: the head of the loop of one container
FpLoopCheck ==
    /\ pc = "fp_loop"
    /\ IF scrolls < MAX_ATTEMPTS /\ ~stop_event
       THEN pc' = "fp_scroll" /\ UNCHANGED stop_seen
       ELSE /\ pc' = "fp_cand_end"
            /\ stop_seen' = IF scrolls < MAX_ATTEMPTS /\ stop_seen = ""
                            THEN "fp_loop" ELSE stop_seen
    /\ UNCHANGED << outcome, stop_event, guiVars, browser_open, download_images,
                    is_5paisa, runVars, sinkVars, detectVars, branches, mt_idx,
                    scrollVars, fpVars, domVars, late_drives, discovered >>

\* line 437
IsCheckScroll(n) == n % CHECK_EVERY = 0
\* line 449
FpStagnationReached(n) == n >= FP_STAGNANT
\* line 456
ContainerCapReached(n) == n >= CONTAINER_CAP

\* lines 435-457: one container scroll, and every CHECK_EVERY-th scroll an
\* extraction merged by normalized name
FpScroll ==
    /\ pc = "fp_scroll"
    /\ late_drives' = Drive(1)
    /\ scrolls' = scrolls + 1
    /\ \E raises \in BOOLEAN :
         LET batch == ExtractFromTableSelector(dom_stocks, raises)
             m == MergeCompanies(collected, fp_seen, batch)
         IN IF IsCheckScroll(scrolls')
            THEN /\ collected' = m.combined
                 /\ fp_seen' = m.seen
                 /\ discovered' = discovered \cup
                        { m.combined[i] : i \in (Len(collected) + 1)..Len(m.combined) }
                 /\ fp_idle' = IF Len(m.combined) > Len(collected) THEN 0
                                ELSE IF fp_idle > FP_STAGNANT THEN fp_idle
                                ELSE fp_idle + 1
                 /\ IF Len(m.combined) = fp_last_count
                    THEN /\ fp_stagnant' = fp_stagnant + 1
                         /\ IF FpStagnationReached(fp_stagnant')
                            THEN pc' = "fp_cand_end" /\ UNCHANGED fp_last_count
                            ELSE /\ fp_last_count' = Len(m.combined)
                                 /\ pc' = IF ContainerCapReached(Len(m.combined))
                                          THEN "fp_cand_end" ELSE "fp_loop"
                    ELSE /\ fp_stagnant' = 0
                         /\ fp_last_count' = Len(m.combined)
                         /\ pc' = IF ContainerCapReached(Len(m.combined))
                                  THEN "fp_cand_end" ELSE "fp_loop"
            ELSE /\ raises = FALSE
                 /\ pc' = IF ContainerCapReached(Len(collected))
                          THEN "fp_cand_end" ELSE "fp_loop"
                 /\ UNCHANGED << collected, fp_seen, discovered, fp_stagnant,
                                 fp_last_count, fp_idle >>
    /\ UNCHANGED << outcome, stop_event, guiVars, browser_open, download_images,
                    is_5paisa, runVars, sinkVars, detectVars, branches, mt_idx,
                    scrollVars, candidates, ci, best_result, domVars, stop_seen >>

\* line 458: the larger result is kept
BetterResult(new, best) == IF Len(new) > Len(best) THEN new ELSE best
\* a threshold that no result reaches
LargeResultReached_Never(n) == FALSE
\* line 460
LargeResultReached(n) == n >= LARGE_RESULT

\* lines 458-461: the end of one container's loop
FpContainerEnd ==
    /\ pc = "fp_cand_end"
    /\ best_result' = BetterResult(collected, best_result)
    /\ IF LargeResultReached(Len(best_result'))
       THEN pc' = "fp_done" /\ ci' = ci
       ELSE pc' = "fp_cand" /\ ci' = ci + 1
    /\ UNCHANGED << outcome, stop_event, guiVars, browser_open, download_images,
                    is_5paisa, runVars, sinkVars, detectVars, branches, mt_idx,
                    scrollVars, candidates, fp_seen, collected, fp_last_count,
                    fp_stagnant, scrolls, fp_idle, domVars, late_drives, discovered,
                    stop_seen >>

\* lines 462 and 576-586: the result becomes the sheet 5Paisa_Stocks, or the
\* run falls through to the universal engine
FpDone ==
    /\ pc = "fp_done"
    /\ IF best_result # <<>>
       THEN /\ sheets' = ("5Paisa_Stocks" :> SheetOfCompanies(best_result)) @@ sheets
            /\ partial_collected' =
                   ("5Paisa_Stocks" :> CopyFrame(SheetOfCompanies(best_result))) @@ partial_collected
       ELSE UNCHANGED << sheets, partial_collected >>
    /\ pc' = IF NeedsUniversal(sheets') THEN "detect_tables" ELSE "stop_check"
    \* the locals of the method are gone; the result lives on in best_result
    /\ candidates' = <<>>
    /\ ci' = 0
    /\ collected' = <<>>
    /\ fp_last_count' = 0
    /\ fp_stagnant' = 0
    /\ scrolls' = 0
    \* the virtualized rows are not read again
    /\ dom_stocks' = <<>>
    /\ stocks_cumulative' = TRUE
    /\ fp_idle' = 0
    /\ UNCHANGED << outcome, stop_event, guiVars, browser_open, download_images,
                    is_5paisa, sinkVars, detectVars, branches, mt_idx, scrollVars,
                    fp_seen, best_result, dom_table, dom_items, late_drives,
                    discovered, stop_seen >>

\* ------------------------------------------------------------------------
\* The universal engine: detection
\* ------------------------------------------------------------------------
\* lines 587-592: a fresh engine, the table count (0 when the query raises)
\* and, when it is positive, the best table selector
DetectTables ==
    /\ pc = "detect_tables"
    /\ seen_keys' = {}
    /\ \E n \in 0..MaxTables, out \in ProbeVectors2(Len(TableCandidates) + 1) :
         /\ table_count' = n
         /\ table_sel' = IF n > 0 THEN DetectBestTableSelector(out) ELSE None
         /\ probed' = [NoProbes EXCEPT !.table = IF n > 0 THEN out ELSE <<>>]
    /\ detected' = TRUE
    /\ pc' = IF table_sel' = None THEN "detect_list" ELSE "detect_next"
    /\ UNCHANGED << outcome, stop_event, guiVars, browser_open, download_images,
                    is_5paisa, runVars, sinkVars, list_sel, next_btn, pulsed, mode,
                    branches, mt_idx, combined, last_count, stagnant, cycles, same_cycles,
                    fpVars, domVars, late_drives, discovered, stop_seen >>

\* lines 594-596 with detect_list_selector (192-235): two scroll pulses (the
\* second is skipped when the first raises), then the probe chain
DetectList ==
    /\ pc = "detect_list"
    /\ \E pulse1_ok \in BOOLEAN : late_drives' = Drive(IF pulse1_ok THEN 2 ELSE 1)
    /\ pulsed' = TRUE
    /\ \E out \in ProbeVectors(Len(ListCandidates)), census \in Censuses,
          prose \in Proses :
         /\ list_sel' = DetectListSelector(out, census, prose)
         \* the census runs when no candidate matched twice, the prose counts
         \* when the census gave no class set
         /\ probed' = [probed EXCEPT
                !.list = out,
                !.census = IF FirstAtLeast(out, 2) = 0 THEN census ELSE @,
                !.prose = IF FirstAtLeast(out, 2) = 0 /\
                             (census.raises \/ CensusSelectors(census.counts) = <<>>)
                          THEN prose ELSE @]
    /\ pc' = "detect_next"
    /\ UNCHANGED << outcome, stop_event, guiVars, browser_open, download_images,
                    is_5paisa, runVars, sinkVars, table_count, table_sel, next_btn,
                    detected, mode, branches, mt_idx, scrollVars, fpVars, domVars,
                    discovered, stop_seen >>

\* line 598 with detect_next_button (119-144)
DetectNext ==
    /\ pc = "detect_next"
    /\ \E css \in ProbeVectors2(Len(NextCssCandidates)),
          xp \in ProbeVectors2(Len(NextXpathCandidates)) :
         /\ next_btn' = DetectNextButton(css, xp)
         /\ probed' = [probed EXCEPT !.css = css, !.xp = xp]
    /\ pc' = "branch"
    /\ UNCHANGED << outcome, stop_event, guiVars, browser_open, download_images,
                    is_5paisa, runVars, sinkVars, table_count, table_sel, list_sel,
                    detected, pulsed, mode, branches, mt_idx, scrollVars, fpVars,
                    domVars, late_drives, discovered, stop_seen >>

\* ------------------------------------------------------------------------
\* The strategy ladder (lines 601, 633, 635, 667, 701, 715, 727)
\* ------------------------------------------------------------------------
\* a ladder that gives up when the cancellation flag is set
Ladder_SeesFlag(tc, ts, ls, nb) ==
    IF stop_event THEN "fail"
    ELSE IF tc > 1 THEN "multi_table"
    ELSE IF ts # None THEN (IF nb # NoNext THEN "click_table" ELSE "scroll_table")
    ELSE IF ls # None THEN "scroll_list"
    ELSE IF nb # NoNext THEN "click_list"
    ELSE "fail"

\* a ladder that looks at the pagination control before the table count
Ladder_NextFirst(tc, ts, ls, nb) ==
    IF nb # NoNext THEN (IF ts # None THEN "click_table" ELSE "click_list")
    ELSE IF tc > 1 THEN "multi_table"
    ELSE IF ts # None THEN "scroll_table"
    ELSE IF ls # None THEN "scroll_list"
    ELSE "fail"

Ladder(tc, ts, ls, nb) ==
    IF tc > 1 THEN "multi_table"
    ELSE IF ts # None THEN (IF nb # NoNext THEN "click_table" ELSE "scroll_table")
    ELSE IF ls # None THEN "scroll_list"
    ELSE IF nb # NoNext THEN "click_list"
    ELSE "fail"

ChooseBranch ==
    /\ pc = "branch"
    /\ LET b == Ladder(table_count, table_sel, list_sel, next_btn)
       IN /\ branches' = Append(branches, b)
          /\ pc' = CASE b = "multi_table" -> "mt_loop"
                     [] b \in {"click_table", "click_list"} -> "click"
                     [] b \in {"scroll_table", "scroll_list"} -> "sus_check"
                     [] OTHER -> "done"
          /\ mode' = CASE b = "scroll_table" -> "table"
                       [] b = "scroll_list" -> "list"
                       [] OTHER -> mode
          \* lines 727-730: no shape; the browser is stopped and run returns
          /\ outcome' = IF b = "fail" THEN "NoShape" ELSE outcome
          /\ browser_open' = IF b = "fail" THEN Held(StopBrowser(Handles(browser_open)))
                              ELSE browser_open
    \* lines 255-258: the locals of scroll_until_stable; line 603: idx
    /\ combined' = <<>>
    /\ last_count' = 0
    /\ stagnant' = 0
    /\ cycles' = 0
    /\ same_cycles' = 0
    /\ mt_idx' = 0
    /\ probed' = NoProbes
    /\ UNCHANGED << stop_event, guiVars, download_images, is_5paisa, runVars,
                    sinkVars, table_count, table_sel, list_sel, next_btn, detected,
                    pulsed, seen_keys, fpVars, domVars, late_drives, discovered, stop_seen >>

\* lines 637 and 717: UniversalEngine has no method paginate_click_next, so
\* the call raises AttributeError, which the handler of line 778 receives
PaginateClickNext ==
    /\ pc = "click"
    /\ pc' = "except"
    /\ UNCHANGED << outcome, stop_event, guiVars, browser_open, download_images,
                    is_5paisa, runVars, sinkVars, detectVars, branches, mt_idx,
                    scrollVars, fpVars, domVars, late_drives, discovered, stop_seen >>

\* ------------------------------------------------------------------------
\* Multi-table extraction (lines 601-630)
\* ------------------------------------------------------------------------
MaxWidth(rows) ==
    IF rows = <<>> THEN 0
    ELSE CHOOSE w \in { Len(rows[i]) : i \in 1..Len(rows) } :
             \A i \in 1..Len(rows) : Len(rows[i]) <= w
\* pd.DataFrame(rows, columns=headers if headers else None) raises ValueError
\* when the number of names differs from the width of the data
FrameRaises(rows, headers) == headers # <<>> /\ Len(headers) # MaxWidth(rows)
\* the frame of a list of lists: short rows are padded, unnamed columns are
\* numbered from 0
FrameFromLists(rows, headers) ==
    LET w == MaxWidth(rows)
    IN [cols |-> IF headers # <<>> THEN headers ELSE [j \in 1..w |-> ToString(j - 1)],
        rows |-> [i \in 1..Len(rows) |->
                    [j \in 1..w |-> IF j <= Len(rows[i]) THEN rows[i][j] ELSE "None"]]]
SheetName(idx) == "Table_" \o ToString(idx + 1)
\* the page script of lines 607-618: null when the table is gone, None when
\* the evaluation raises; the rows are lists of cell texts
EvalTableAt(t, raises) ==
    IF raises \/ ~t.present THEN NoData
    ELSE [kind |-> "table", headers |-> TableHeaders(t),
          rows |-> [i \in 1..Len(t.rows) |-> t.rows[i].cells]]

MultiTableStep ==
    /\ pc = "mt_loop"
    /\ IF mt_idx >= table_count
       THEN /\ pc' = "stop_check"
            /\ UNCHANGED << mt_idx, sheets, partial_collected, stop_seen >>
       ELSE IF stop_event
       THEN /\ pc' = "stop_check"
            /\ stop_seen' = IF stop_seen = "" THEN "mt_loop" ELSE stop_seen
            /\ UNCHANGED << mt_idx, sheets, partial_collected >>
       ELSE \E t \in DomTablesAt, raises \in BOOLEAN :
              LET data == EvalTableAt(t, raises)
                  rows == data.rows
              IN IF data.kind = "none" \/ rows = <<>>
                 THEN /\ pc' = "mt_loop"
                      /\ mt_idx' = mt_idx + 1
                      /\ UNCHANGED << sheets, partial_collected, stop_seen >>
                 ELSE IF FrameRaises(rows, data.headers)
                 THEN /\ pc' = "except"
                      /\ UNCHANGED << mt_idx, sheets, partial_collected, stop_seen >>
                 ELSE LET df == InsertSerial(FrameFromLists(rows, data.headers))
                      IN /\ sheets' = (SheetName(mt_idx) :> df) @@ sheets
                         /\ partial_collected' =
                                (SheetName(mt_idx) :> CopyFrame(df)) @@ partial_collected
                         /\ mt_idx' = mt_idx + 1
                         /\ pc' = "mt_loop"
                         /\ UNCHANGED stop_seen
    /\ UNCHANGED << outcome, stop_event, guiVars, browser_open, download_images,
                    is_5paisa, sinkVars, detectVars, branches, scrollVars, fpVars,
                    domVars, late_drives, discovered >>

\* ------------------------------------------------------------------------
\* scroll_until_stable (lines 254-310)
\* ------------------------------------------------------------------------
\* lines 261-263: the cancellation point at the top of every cycle
ScrollCheck ==
    /\ pc = "sus_check"
    /\ IF stop_event
       THEN /\ pc' = "sus_done"
            /\ stop_seen' = IF stop_seen = "" THEN "sus" ELSE stop_seen
       ELSE pc' = "sus_cycle" /\ UNCHANGED stop_seen
    /\ UNCHANGED << outcome, stop_event, guiVars, browser_open, download_images,
                    is_5paisa, runVars, sinkVars, detectVars, branches, mt_idx,
                    scrollVars, fpVars, domVars, late_drives, discovered >>

\* a stagnation test that is late by one cycle
StagnationReached_Late(n) == n > MAX_SCROLL_STAGNANT
\* a cap test without the cycle counter
CapReached_RecordsOnly(c, n) == n > RECORD_CAP

\* line 299
StagnationReached(n) == n >= MAX_SCROLL_STAGNANT
\* line 307
CapReached(c, n) == c > CYCLE_CAP \/ n > RECORD_CAP

\* lines 265-308: drive step, extraction, merge, stagnation and caps
ScrollCycle ==
    /\ pc = "sus_cycle"
    /\ late_drives' = Drive(1)
    /\ \E raises \in BOOLEAN :
         LET data == IF mode = "table" THEN ExtractTableJs(dom_table, raises)
                     ELSE ExtractListItemsJs(dom_items, raises)
             m == MergeData(combined, seen_keys, data)
             n == Len(m.combined)
         IN /\ combined' = m.combined
            /\ seen_keys' = m.seen
            /\ discovered' = discovered \cup { m.combined[i] : i \in (Len(combined) + 1)..n }
            /\ same_cycles' = IF raises THEN 0 ELSE same_cycles + 1
            /\ IF n = last_count
               THEN /\ stagnant' = stagnant + 1
                    /\ IF StagnationReached(stagnant')
                       THEN pc' = "sus_done" /\ UNCHANGED << last_count, cycles >>
                       ELSE /\ last_count' = n
                            /\ cycles' = cycles + 1
                            /\ pc' = IF CapReached(cycles', n) THEN "sus_done" ELSE "sus_check"
               ELSE /\ stagnant' = 0
                    /\ last_count' = n
                    /\ cycles' = cycles + 1
                    /\ pc' = IF CapReached(cycles', n) THEN "sus_done" ELSE "sus_check"
    /\ UNCHANGED << outcome, stop_event, guiVars, browser_open, download_images,
                    is_5paisa, runVars, sinkVars, detectVars, branches, mt_idx,
                    fpVars, domVars, stop_seen >>

\* lines 670-698 (table) and 704-712 (list): the converged records become a
\* sheet; the header read may raise, which leaves no headers
ScrollDone ==
    /\ pc = "sus_done"
    /\ IF combined = <<>>
       THEN UNCHANGED << sheets, partial_collected >>
       ELSE \E raises \in BOOLEAN :
              LET name == IF mode = "table" THEN "Table" ELSE "Items"
                  df == IF mode = "table"
                        THEN SheetOfRows(combined, ReadHeaders(dom_table, raises))
                        ELSE SheetOfItems(combined)
              IN /\ (mode = "list" => ~raises)
                 /\ sheets' = (name :> df) @@ sheets
                 /\ partial_collected' = (name :> CopyFrame(df)) @@ partial_collected
    /\ pc' = "stop_check"
    \* the locals of scroll_until_stable are gone, and the page is not read
    \* again: what it shows is no longer tracked
    /\ last_count' = 0
    /\ stagnant' = 0
    /\ cycles' = 0
    /\ same_cycles' = 0
    /\ dom_table' = NoTable
    /\ dom_items' = <<>>
    /\ UNCHANGED << outcome, stop_event, guiVars, browser_open, download_images,
                    is_5paisa, sinkVars, detectVars, branches, mt_idx, seen_keys,
                    combined, fpVars, dom_stocks, stocks_cumulative, late_drives,
                    discovered, stop_seen >>

\* ------------------------------------------------------------------------
\* The end of run(): STOP check, images, final save, error handler
\* ------------------------------------------------------------------------
\* a check that never sees the flag
StopRequested_Never == FALSE
\* line 733: self.stop_event.is_set()
StopRequested == stop_event
\* lines 733-737: a set flag ends the run with a partial save
StopCheck ==
    /\ pc = "stop_check"
    /\ IF StopRequested
       THEN \E ok \in BOOLEAN :
              /\ excel_file' = SavePartialResults(ok)
              /\ run_saves' = SaveLog(run_saves, ok)
              /\ sink_failed' = (sink_failed \/ SaveFailed(ok))
              /\ browser_open' = Held(StopBrowser(Handles(browser_open)))
              /\ outcome' = "Cancelled"
              /\ pc' = "done"
              /\ UNCHANGED host_saves
       ELSE /\ pc' = "images"
            /\ UNCHANGED << sinkVars, browser_open, outcome >>
    /\ UNCHANGED << stop_event, guiVars, download_images, is_5paisa, runVars,
                    detectVars, branches, mt_idx, scrollVars, fpVars, domVars,
                    late_drives, discovered, stop_seen >>

\* the image URLs of the page that start with "http"
HttpUrls == {"http://h/i.png"}
\* imgcell.split(",")[0].strip(): no row of the page has more than one image,
\* so the cell is the URL itself
FirstImage(cell) == IF cell = "NaN" THEN "" ELSE cell
\* os.path.join(folder, safe_filename(name) + "." + ext); the sheet names are
\* alphanumeric and every URL of the page ends in ".png"
ImagePath(sheet, idx) == "scraped_images/" \o sheet \o "_r" \o ToString(idx) \o ".png"
\* lines 746-755 for one row: <<image_local, image_status>>; dl and hd are
\* the outcomes of download_image_async and head_check_image per URL
ImageRow(sheet, idx, cell, dl, hd) ==
    LET first == FirstImage(cell)
    IN IF first = "" THEN <<"", "Missing">>
       ELSE IF first \notin HttpUrls THEN <<"", "Missing">>
       ELSE <<IF dl[first] THEN ImagePath(sheet, idx) ELSE "", hd[first]>>
HasImages(df) == "images" \in SeqToSet(df.cols)
\* lines 742-758 for one sheet
WithImages(sheet, df, dl, hd) ==
    LET k == CHOOSE j \in 1..Len(df.cols) : df.cols[j] = "images"
    IN [cols |-> df.cols \o <<"image_local", "image_status">>,
        rows |-> [i \in 1..Len(df.rows) |->
                    df.rows[i] \o ImageRow(sheet, i, df.rows[i][k], dl, hd)]]

\* lines 740-759: the image phase over every sheet with an images column
Images ==
    /\ pc = "images"
    /\ IF download_images /\ sheets # NoSheets
       THEN \E dl \in [HttpUrls -> BOOLEAN], hd \in [HttpUrls -> {"Valid", "Broken"}] :
              LET upd == { n \in DOMAIN sheets : HasImages(sheets[n]) }
              IN /\ sheets' = [n \in DOMAIN sheets |->
                                 IF n \in upd THEN WithImages(n, sheets[n], dl, hd)
                                 ELSE sheets[n]]
                 /\ partial_collected' =
                        [n \in DOMAIN partial_collected \cup upd |->
                           IF n \in upd THEN CopyFrame(sheets'[n]) ELSE partial_collected[n]]
       ELSE UNCHANGED << sheets, partial_collected >>
    /\ pc' = "final_save"
    /\ UNCHANGED << outcome, stop_event, guiVars, browser_open, download_images,
                    is_5paisa, sinkVars, detectVars, branches, mt_idx, scrollVars,
                    fpVars, domVars, late_drives, discovered, stop_seen >>

\* lines 762-776: the workbook of all sheets; ok = the writer did not raise
FinalSave ==
    /\ pc = "final_save"
    /\ \E ok \in BOOLEAN :
         /\ IF sheets # NoSheets /\ ok
            THEN /\ excel_file' = [exists |-> TRUE, sheets |-> sheets]
                 /\ run_saves' = Append(run_saves, sheets)
            ELSE UNCHANGED << excel_file, run_saves >>
         /\ sink_failed' = (sink_failed \/ (sheets # NoSheets /\ ~ok))
    /\ browser_open' = Held(StopBrowser(Handles(browser_open)))
    /\ outcome' = "Finalized"
    /\ pc' = "done"
    /\ UNCHANGED << stop_event, guiVars, download_images, is_5paisa, runVars,
                    host_saves, detectVars, branches, mt_idx, scrollVars, fpVars,
                    domVars, late_drives, discovered, stop_seen >>

\* lines 778-790: the handler of an unexpected exception
Except ==
    /\ pc = "except"
    /\ \E ok \in BOOLEAN :
         /\ excel_file' = SavePartialResults(ok)
         /\ run_saves' = SaveLog(run_saves, ok)
         /\ sink_failed' = (sink_failed \/ SaveFailed(ok))
    /\ browser_open' = Held(StopBrowser(Handles(browser_open)))
    /\ outcome' = "Fatal"
    /\ pc' = "done"
    /\ UNCHANGED << stop_event, guiVars, download_images, is_5paisa, runVars,
                    host_saves, detectVars, branches, mt_idx, scrollVars, fpVars,
                    domVars, late_drives, discovered, stop_seen >>

\* ------------------------------------------------------------------------
\* The environment: the host's STOP button and the page
\* ------------------------------------------------------------------------
\* the texts of the URL and output-filename entries at a Start press
EntryTexts == { <<>>, <<" ">>, <<"a">> }
\* start_scraper_thread, lines 797-802: neither text is blank
InputsAccepted(url, excel) == Strip(url) # <<>> /\ Strip(excel) # <<>>
\* on_start (lines 925-932) with start_scraper_thread (793-874), pressed while
\* no scrape task runs: the buttons are switched first; accepted inputs make
\* a new event, a new app instance and its worker thread, rejected inputs
\* return None, which line 932 stores as the holder's event
OnStart ==
    /\ pc \in {"idle", "done"}
    /\ start_btn = "normal"
    /\ start_btn' = "disabled"
    /\ stop_btn' = "normal"
    /\ \E url \in EntryTexts, excel \in EntryTexts :
         IF InputsAccepted(url, excel)
         THEN /\ holder_evt' = "event"
              /\ pc' = "start"
              /\ outcome' = ""
              /\ stop_event' = FALSE
              /\ browser_open' = FALSE
              /\ download_images' \in BOOLEAN
              /\ is_5paisa' = FALSE
              /\ sheets' = NoSheets
              /\ partial_collected' = NoSheets
              /\ excel_file' = NoFile
              /\ run_saves' = <<>>
              /\ host_saves' = <<>>
              /\ sink_failed' = FALSE
              /\ table_count' = 0
              /\ table_sel' = None
              /\ list_sel' = None
              /\ next_btn' = NoNext
              /\ detected' = FALSE
              /\ probed' = NoProbes
              /\ pulsed' = FALSE
              /\ mode' = ""
              /\ branches' = <<>>
              /\ mt_idx' = 0
              /\ seen_keys' = {}
              /\ combined' = <<>>
              /\ last_count' = 0
              /\ stagnant' = 0
              /\ cycles' = 0
              /\ candidates' = <<>>
              /\ ci' = 0
              /\ fp_seen' = {}
              /\ collected' = <<>>
              /\ fp_last_count' = 0
              /\ fp_stagnant' = 0
              /\ scrolls' = 0
              /\ best_result' = <<>>
              /\ dom_table' = NoTable
              /\ dom_items' = <<>>
              /\ dom_stocks' = <<>>
              /\ stocks_cumulative' = TRUE
              /\ fp_idle' = 0
              /\ late_drives' = 0
              /\ same_cycles' = 0
              /\ discovered' = {}
              /\ stop_seen' = ""
         ELSE /\ holder_evt' = None
              /\ UNCHANGED << pc, outcome, stop_event, browser_open, download_images,
                              is_5paisa, runVars, sinkVars, detectVars, branches,
                              mt_idx, scrollVars, fpVars, domVars, late_drives,
                              discovered, stop_seen >>

\* on_stop (lines 934-949): with an event in the holder it sets the event,
\* saves partial_collected on the host thread and switches the buttons back;
\* without one it shows a message and changes nothing
OnStop ==
    /\ stop_btn = "normal"
    /\ IF holder_evt = "event"
       THEN /\ stop_event' = TRUE
            /\ \E ok \in BOOLEAN :
                 /\ excel_file' = SavePartialResults(ok)
                 /\ host_saves' = SaveLog(host_saves, ok)
            /\ stop_btn' = "disabled"
            /\ start_btn' = "normal"
            /\ UNCHANGED holder_evt
       ELSE UNCHANGED << stop_event, excel_file, host_saves, guiVars >>
    /\ UNCHANGED << pc, outcome, browser_open, download_images,
                    is_5paisa, runVars, run_saves, sink_failed, detectVars, branches,
                    mt_idx, scrollVars, fpVars, domVars, late_drives, discovered,
                    stop_seen >>

\* the normalized names of the records the virtualized rows expose
StockNames(rows) == { CompanyKey(c) : c \in SeqToSet(StockRows(rows)) }

\* The page changes what it shows, between two cycles of the active loop or
\* before the header read that follows it.
PageMutate ==
    /\ \/ /\ pc = "fp_loop"
          /\ dom_stocks' \in DomStockSeqs \ {dom_stocks}
          /\ stocks_cumulative' =
                (stocks_cumulative /\ StockNames(dom_stocks) \subseteq StockNames(dom_stocks'))
          /\ UNCHANGED << dom_table, dom_items >>
       \/ /\ pc = "sus_check"
          /\ mode = "table"
          /\ dom_table' \in DomTables \ {dom_table}
          /\ UNCHANGED << dom_stocks, stocks_cumulative, dom_items >>
       \/ /\ pc = "sus_done"
          /\ mode = "table"
          /\ dom_table.present
          /\ dom_table' \in {NoTable} \cup [present : {TRUE}, heads : DomHeadsAtRead \ {dom_table.heads},
                                            rows : {dom_table.rows}]
          /\ UNCHANGED << dom_stocks, stocks_cumulative, dom_items >>
       \/ /\ pc = "sus_check"
          /\ mode = "list"
          /\ dom_items' \in DomItemSeqs \ {dom_items}
          /\ UNCHANGED << dom_stocks, stocks_cumulative, dom_table >>
    /\ same_cycles' = 0
    /\ UNCHANGED << pc, outcome, stop_event, guiVars, browser_open,
                    download_images, is_5paisa, runVars, sinkVars, detectVars,
                    branches, mt_idx, seen_keys, combined, last_count, stagnant,
                    cycles, fpVars, late_drives, discovered, stop_seen >>

Next ==
    \/ StartBrowser
    \/ Navigate
    \/ NavigateRetry
    \/ DetectMarker
    \/ FpFindCandidates
    \/ FpNextContainer
    \/ FpLoopCheck
    \/ FpScroll
    \/ FpContainerEnd
    \/ FpDone
    \/ DetectTables
    \/ DetectList
    \/ DetectNext
    \/ ChooseBranch
    \/ PaginateClickNext
    \/ MultiTableStep
    \/ ScrollCheck
    \/ ScrollCycle
    \/ ScrollDone
    \/ StopCheck
    \/ Images
    \/ FinalSave
    \/ Except
    \/ OnStart
    \/ OnStop
    \/ PageMutate

Spec == Init /\ [][Next]_vars

\* ------------------------------------------------------------------------
\* Properties
\* ------------------------------------------------------------------------
\* the ladder branches of the universal engine that the run entered
UniversalBranches == SelectSeq(branches, LAMBDA b : b # "virtualized")
InScrollLoop == pc \in {"sus_check", "sus_cycle"}
IsPrefix(s, t) == Len(s) <= Len(t) /\ SubSeq(t, 1, Len(s)) = s
\* no key occurs twice in a sequence of keys
KeysUnique(keys) == \A i, j \in 1..Len(keys) : keys[i] = keys[j] => i = j
\* r, whose key is key, is the first entry of rows (whose keys are keys, in
\* page order) that has this key
FirstOfKey(r, key, rows, keys) ==
    \E j \in 1..Len(rows) : rows[j] = r /\ \A k \in 1..(j - 1) : keys[k] # key
ResultKey(r) == IF mode = "table" THEN RowKey(r) ELSE ItemKey(r)
ResultKeys(seq) == [i \in 1..Len(seq) |-> ResultKey(seq[i])]
CompanyKeys(seq) == [i \in 1..Len(seq) |-> CompanyKey(seq[i])]
PageRows == IF mode = "table" THEN dom_table.rows ELSE dom_items

\* the header lists a table sheet may have been built with
HeaderLists ==
    { ReadHeaders(t, raises) :
        t \in DomTables \cup [present : {TRUE}, heads : DomHeadsAtRead, rows : DomRowSeqs],
        raises \in BOOLEAN }
\* the output records a discovered raw record stands for
OutRecords(r) ==
    IF "company_name" \in DOMAIN r THEN {CompanyToRecord(r)}
    ELSE IF "title" \in DOMAIN r THEN {ItemToRecord(r)}
    ELSE { RowToRecord(r, h) : h \in HeaderLists }
\* row i of the sheet carries the values of rec in every column but serial_no
Shows(df, i, rec) ==
    \A j \in 1..Len(df.cols) :
        df.cols[j] = "serial_no" \/ df.rows[i][j] = DictGet(rec, df.cols[j], "NaN")
\* the workbook holds a row for every discovered record and no other row
HoldsExactlyDiscovered(file) ==
    /\ \A r \in discovered :
         \E n \in DOMAIN file : \E i \in 1..Len(file[n].rows) :
            \E rec \in OutRecords(r) : Shows(file[n], i, rec)
    /\ \A n \in DOMAIN file : \A i \in 1..Len(file[n].rows) :
         \E r \in discovered : \E rec \in OutRecords(r) : Shows(file[n], i, rec)

\* C1: when the run is cancelled inside a convergence loop (the universal
\* loop or the loops of the virtualized strategy), the checkpoint the task
\* writes holds exactly the records the loops had discovered: none is missing
\* and no other record is in it.
C1_CheckpointIsDiscovered ==
    (/\ outcome = "Cancelled"
     /\ stop_seen \in {"sus", "fp_loop", "fp_cand"}
     /\ run_saves # <<>>)
    => HoldsExactlyDiscovered(run_saves[Len(run_saves)])

\* C2: once the cancellation flag is set, at most the drive step already in
\* flight completes: no further drive step is started, in the universal
\* engine after an empty virtualized run as anywhere else.
C2_NoDriveAfterCancel == late_drives <= 1

C4_CycleCap ==
    [][pc = "sus_cycle" =>
          /\ cycles <= CYCLE_CAP
          /\ Len(combined) <= RECORD_CAP
          /\ (pc' = "sus_cycle" \/ pc' = "sus_done" \/ cycles' = cycles + 1)]_vars
\* the loop was ended by the cycle cap, by a page that kept changing
C4_Witness == pc = "sus_done" /\ cycles = CYCLE_CAP + 1 /\ stagnant < MAX_SCROLL_STAGNANT

\* C5: a result set never holds two records with the same dedup key, and the
\* record kept for a key is the first discovered: a cycle only appends, and
\* what it appends is, for a key not yet held, the first entry of the page
\* with that key.
C5_FirstKeptUnique ==
    /\ [](/\ KeysUnique(ResultKeys(combined))
          /\ KeysUnique(CompanyKeys(collected))
          /\ KeysUnique(CompanyKeys(best_result)))
    /\ [][/\ pc = "sus_cycle" =>
               /\ IsPrefix(combined, combined')
               /\ \A i \in (Len(combined) + 1)..Len(combined') :
                    /\ FirstOfKey(combined'[i], ResultKey(combined'[i]),
                                  PageRows, ResultKeys(PageRows))
                    /\ \A k \in 1..Len(combined) : ResultKey(combined[k]) # ResultKey(combined'[i])
          /\ pc = "fp_scroll" =>
               /\ IsPrefix(collected, collected')
               /\ \A i \in (Len(collected) + 1)..Len(collected') :
                    FirstOfKey(collected'[i], CompanyKey(collected'[i]),
                               StockRows(dom_stocks), CompanyKeys(StockRows(dom_stocks)))]_vars
\* the page showed, and a cycle extracted, a second row with the key of a row
\* already held: the held one stayed
C5_Witness ==
    /\ pc = "sus_check"
    /\ mode = "table"
    /\ same_cycles >= 1
    /\ dom_table.present
    /\ dom_table.rows = <<R1b, R2>>
    /\ combined = <<R1, R2>>

\* C6: a cycle that extracts, without error, a page that was already
\* extracted and has not changed since leaves the result set and the seen
\* keys exactly as they were.
C6_MergeIdempotent ==
    [][(pc = "sus_cycle" /\ same_cycles >= 1 /\ same_cycles' = same_cycles + 1)
          => (combined' = combined /\ seen_keys' = seen_keys)]_vars
\* the same non-empty page was merged twice
C6_Witness == pc = "sus_check" /\ same_cycles >= 2 /\ combined # <<>>

\* the ladder as the specification words it
SpecifiedBranch ==
    CASE table_count > 1 -> "multi_table"
      [] table_count <= 1 /\ table_sel # None /\ next_btn # NoNext -> "click_table"
      [] table_count <= 1 /\ table_sel # None /\ next_btn = NoNext -> "scroll_table"
      [] table_count <= 1 /\ table_sel = None /\ list_sel # None -> "scroll_list"
      [] table_count <= 1 /\ table_sel = None /\ list_sel = None /\ next_btn # NoNext
            -> "click_list"
      [] OTHER -> "fail"
MultiSheetNames == { SheetName(k) : k \in 0..(MaxTables - 1) }

\* C7: the universal engine enters exactly one branch, the first of the
\* ladder that applies (several tables, one table with and without a
\* pagination control, a list, a pagination control alone, none), and only
\* that branch's code runs and produces sheets.
C7_LadderOrder ==
    /\ Len(UniversalBranches) <= 1
    /\ pc \in {"mt_loop", "click", "sus_check", "sus_cycle", "sus_done"}
         => UniversalBranches # <<>>
    /\ UniversalBranches # <<>> =>
         LET b == UniversalBranches[1]
         IN /\ b = SpecifiedBranch
            /\ pc = "mt_loop" => b = "multi_table"
            /\ pc = "click" => b \in {"click_table", "click_list"}
            /\ pc \in {"sus_check", "sus_cycle", "sus_done"} =>
                 \/ b = "scroll_table" /\ mode = "table"
                 \/ b = "scroll_list" /\ mode = "list"
            /\ \A n \in DOMAIN sheets :
                 \/ n \in MultiSheetNames /\ b = "multi_table"
                 \/ n = "Table" /\ b = "scroll_table"
                 \/ n = "Items" /\ b = "scroll_list"
\* the multi-table branch runs although a table selector and a pagination
\* control were found as well
C7_Witness ==
    /\ pc = "mt_loop"
    /\ UniversalBranches = <<"multi_table">>
    /\ table_sel # None
    /\ next_btn # NoNext
    /\ sheets # NoSheets

\* C8: a run that enters a click-pagination branch (one table with a
\* pagination control, or a pagination control alone) does not end Fatal.
C8_ClickPaginationCompletes ==
    (UniversalBranches # <<>> /\ UniversalBranches[1] \in {"click_table", "click_list"})
    => outcome # "Fatal"

\* C9: on a page with the virtualization marker the virtualized strategy
\* runs first; when it yields records its sheet is the only one and the
\* universal engine never runs; the universal engine runs after it only when
\* it yielded nothing; and no second branch is tried after the chosen one.
C9_VirtualizedFirstAlone ==
    /\ (is_5paisa /\ detected) =>
         /\ branches[1] = "virtualized"
         /\ best_result = <<>>
         /\ "5Paisa_Stocks" \notin DOMAIN sheets
    /\ "5Paisa_Stocks" \in DOMAIN sheets =>
         /\ is_5paisa
         /\ ~detected
         /\ DOMAIN sheets = {"5Paisa_Stocks"}
         /\ branches = <<"virtualized">>
    /\ (is_5paisa /\ pc \in {"stop_check", "images", "final_save"}
          /\ "5Paisa_Stocks" \notin DOMAIN sheets) => detected
    /\ ~is_5paisa => "virtualized" \notin SeqToSet(branches)
    /\ Len(UniversalBranches) <= 1
\* the virtualized strategy yielded records and the run was finalized
C9_Witness ==
    /\ outcome = "Finalized"
    /\ "5Paisa_Stocks" \in DOMAIN sheets
    /\ excel_file.exists

\* C10: whenever the task is past the completion of a sheet (before the next
\* table of a multi-table page, before the STOP check, the image phase and
\* the final save), the sink holds that sheet.
C10_SinkHoldsCompletedSheets ==
    pc \in {"mt_loop", "stop_check", "images", "final_save"} =>
        \A n \in DOMAIN sheets : excel_file.exists /\ n \in DOMAIN excel_file.sheets

\* C11: when an unexpected exception ended the run after a sheet was
\* completed, run() has returned with the browser released (the exception did
\* not escape) and, unless the workbook writer itself raised, the workbook
\* written last by the task and the workbook on disk hold every completed
\* sheet.
C11_FatalSavesCompletedSheets ==
    outcome = "Fatal" =>
        /\ pc = "done"
        /\ ~browser_open
        /\ (sheets # NoSheets /\ ~sink_failed) =>
             /\ run_saves # <<>>
             /\ run_saves[Len(run_saves)] = sheets
             /\ excel_file.exists
             /\ excel_file.sheets = sheets
\* the frame of the second table raised after the first table's sheet
C11_Witness ==
    /\ outcome = "Fatal"
    /\ "Table_1" \in DOMAIN sheets
    /\ ~sink_failed
    /\ excel_file.exists

\* C12: when the virtualized strategy ends uncancelled on a page whose rows
\* only ever gained names, reached a total below the large-result threshold and
\* were all extracted, it returns exactly one record per name of the page.
C12_VirtualizedReturnsAll ==
    (/\ pc = "fp_done"
     /\ ~stop_event
     /\ stocks_cumulative
     /\ Cardinality(StockNames(dom_stocks)) < LARGE_RESULT
     /\ StockNames(dom_stocks) \subseteq fp_seen)
    => /\ Len(best_result) = Cardinality(StockNames(dom_stocks))
       /\ SeqToSet(CompanyKeys(best_result)) = StockNames(dom_stocks)

\* C13: in the virtualized strategy no more than the stagnation threshold of
\* extractions happen after the last one that added a record, counted over all
\* candidate containers.
C13_IdleCyclesBounded == fp_seen # {} => fp_idle <= FP_STAGNANT

\* C14: the host's stop action only sets the cancellation flag: in a step that
\* sets the flag while the scrape task is running, the host thread does not
\* write the output file from partial_collected.
C14_HostOnlySetsFlag ==
    [][(~stop_event /\ stop_event' /\ pc \notin {"start", "done"})
        => (excel_file' = excel_file /\ host_saves' = host_saves)]_vars

\* candidate i is the first of the chain, in order, whose probe returned at
\* least k matches
IsFirstMeeting(out, k, i) ==
    /\ i \in 1..Len(out)
    /\ out[i] >= k
    /\ \A j \in 1..(i - 1) : out[j] < k
NoneMeets(out, k) == \A i \in 1..Len(out) : out[i] < k
\* what a chain over the candidates cands with threshold k has to return
IsChainResult(r, cands, out, k, none) ==
    IF NoneMeets(out, k) THEN r = none
    ELSE \E i \in 1..Len(out) : IsFirstMeeting(out, k, i) /\ r = cands[i]
\* probe outcomes with a raising probe, a single match and a double match at
\* any positions
RichVectors(n) == { ProbeVector(n, e, one, h) : e \in 0..n, one \in 0..n, h \in 0..n }
\* the three chains over these outcomes
ProbeChainsOrdered ==
    /\ \A out \in RichVectors(Len(TableCandidates) + 1) :
         IsChainResult(DetectBestTableSelector(out), TableCandidates \o <<"table">>,
                       out, 1, None)
    /\ \A out \in RichVectors(Len(ListCandidates)) :
         \A census \in Censuses, prose \in Proses :
            NoneMeets(out, 2) \/
            IsChainResult(DetectListSelector(out, census, prose), ListCandidates, out, 2, None)
    /\ \A css \in RichVectors(Len(NextCssCandidates)) :
         \A xp \in RichVectors(Len(NextXpathCandidates)) :
            LET r == DetectNextButton(css, xp)
            IN IF ~NoneMeets(css, 1)
               THEN \E i \in 1..Len(css) :
                      IsFirstMeeting(css, 1, i) /\ r = <<"css", NextCssCandidates[i]>>
               ELSE IF ~NoneMeets(xp, 1)
               THEN \E i \in 1..Len(xp) :
                      IsFirstMeeting(xp, 1, i) /\ r = <<"xpath", NextXpathCandidates[i]>>
               ELSE r = NoNext

\* C15: every probe chain of the detector returns the first candidate, in
\* declaration order, whose probe meets the threshold (1 match for tables and
\* next controls, 2 for list candidates); a raising probe counts as no match
\* and the detection pass goes on on its normal path.
C15_ProbeChains ==
    /\ ProbeChainsOrdered
    /\ probed.table # <<>> =>
          IsChainResult(table_sel, TableCandidates \o <<"table">>, probed.table, 1, None)
    /\ (probed.list # <<>> /\ ~NoneMeets(probed.list, 2)) =>
          IsChainResult(list_sel, ListCandidates, probed.list, 2, None)
    /\ probed.css # <<>> =>
          IF ~NoneMeets(probed.css, 1)
          THEN next_btn[1] = "css" /\
               IsChainResult(next_btn[2], NextCssCandidates, probed.css, 1, None)
          ELSE IF ~NoneMeets(probed.xp, 1)
          THEN next_btn[1] = "xpath" /\
               IsChainResult(next_btn[2], NextXpathCandidates, probed.xp, 1, None)
          ELSE next_btn = NoNext
    /\ probed # NoProbes =>
          /\ pc \in {"detect_list", "detect_next", "branch"}
          /\ outcome = ""
          /\ browser_open
\* the first table probe and the first list probe raised, a later list
\* candidate matched twice and the detection pass reached the ladder
C15_Witness ==
    /\ pc = "branch"
    /\ probed.list # <<>>
    /\ probed.list[1] = -1
    /\ list_sel = ListCandidates[Len(ListCandidates)]
    /\ probed.css[1] = -1

\* the extraction of the cycle that is being taken raised, or found no table
\* or no rows
ExtractionFailed ==
    \/ same_cycles' = 0
    \/ (mode = "table" /\ ~dom_table.present)
    \/ PageRows = <<>>
\* C16: a cycle of scroll_until_stable whose extraction raises or returns
\* nothing leaves the result and the seen keys unchanged, adds one to the
\* stagnation counter and does not abort: the loop goes on to its next cycle,
\* or ends as converged (or capped) when the counter reaches the threshold.
C16_FailedCycleIsZeroGrowth ==
    [][(pc = "sus_cycle" /\ pc' # "sus_cycle" /\ ExtractionFailed)
        => /\ combined' = combined
           /\ seen_keys' = seen_keys
           /\ stagnant' = stagnant + 1
           /\ outcome' = outcome
           /\ IF StagnationReached(stagnant') \/ CapReached(cycles', Len(combined))
              THEN pc' = "sus_done"
              ELSE pc' = "sus_check" /\ cycles' = cycles + 1]_vars
\* the list loop has ended as converged on a page that showed no item in its
\* last cycle, with the records of the earlier cycles
C16_Witness ==
    /\ pc = "sus_done"
    /\ mode = "list"
    /\ dom_items = <<>>
    /\ combined # <<>>
    /\ stagnant = MAX_SCROLL_STAGNANT
    /\ outcome = ""

\* C17: a failed first page load is followed by exactly one retry; after a
\* successful retry the run goes on with the marker detection, after a failed
\* one it ends with no detection, no sheet and no write to the workbook.
C17_OneRetryThenEnd ==
    [][/\ (pc = "goto" /\ pc' # "goto") => pc' \in {"marker", "goto_retry"}
       /\ (pc = "goto_retry" /\ pc' # "goto_retry") =>
             \/ pc' = "marker" /\ outcome' = ""
             \/ /\ pc' = "done"
                /\ outcome' = "NavFailed"
                /\ ~detected'
                /\ sheets' = NoSheets
                /\ excel_file' = excel_file
                /\ run_saves' = <<>>]_vars

\* a run that failed for want of a shape has returned with the browser
\* released, no sheet, no cycle of the convergence loop and no workbook
NoShapeNothingProduced ==
    /\ pc = "done"
    /\ ~browser_open
    /\ branches \in {<<"fail">>, <<"virtualized", "fail">>}
    /\ best_result = <<>>
    /\ sheets = NoSheets
    /\ partial_collected = NoSheets
    /\ combined = <<>>
    /\ cycles = 0
    /\ discovered = {}
    /\ excel_file = NoFile
    /\ run_saves = <<>>
    /\ host_saves = <<>>
\* C18 as stated: the run that fails with "no extractable shape detected" has
\* driven the page by no step, the forced scroll pulses of the list detection
\* included, has downloaded no image and has left the output file untouched.
C18_NoShapeNoDrive ==
    outcome = "NoShape" => (NoShapeNothingProduced /\ ~pulsed)
\* C18 amended: the run that fails with "no extractable shape detected" has
\* run no cycle of the convergence loop, has no sheet (so no image phase) and
\* has left the output file untouched, also when the host pressed Stop; the
\* list detection has driven the page by its forced scroll pulses.
C18_NoShapeNothingWritten ==
    outcome = "NoShape" => (NoShapeNothingProduced /\ pulsed)
\* no shape after an empty virtualized run, and the host has pressed Stop
C18_Witness ==
    /\ outcome = "NoShape"
    /\ branches = <<"virtualized", "fail">>
    /\ stop_event

\* the column of a sheet holds one of the image statuses in every row
HasStatusPerRow(df) ==
    /\ "image_status" \in SeqToSet(df.cols)
    /\ LET k == CHOOSE j \in 1..Len(df.cols) : df.cols[j] = "image_status"
       IN \A i \in 1..Len(df.rows) : df.rows[i][k] \in {"Valid", "Broken", "Missing"}
\* C19: whatever the downloads and head checks return, a run with image
\* download enabled that reaches the final save has recorded an image status
\* for every row of every sheet, and is not ended by the image phase.
C19_EveryRowHasImageStatus ==
    (download_images /\ (pc = "final_save" \/ outcome = "Finalized"))
    => /\ outcome \in {"", "Finalized"}
       /\ \A n \in DOMAIN sheets : HasStatusPerRow(sheets[n])

\* the headers the header synthesis has to give for a table
SpecifiedHeaders(t) ==
    IF t.heads # <<>> THEN t.heads
    ELSE IF t.rows = <<>> THEN <<>>
    ELSE [i \in 1..Len(t.rows[1].cells) |-> "Column_" \o ToString(i)]
\* the three places that read headers, over every table of the page universe
HeadersAsSpecified ==
    \A t \in (DomTables \cup DomTablesAt) \ {NoTable} :
       /\ ExtractTableJs(t, FALSE).headers = SpecifiedHeaders(t)
       /\ EvalTableAt(t, FALSE).headers = SpecifiedHeaders(t)
       /\ ReadHeaders(t, FALSE) = SpecifiedHeaders(t)
\* the sheet of a table of the multi-table extraction: its columns are the
\* serial number and the specified headers (numbers when there is none)
IsSheetOfTable(df, t) ==
    LET h == SpecifiedHeaders(t)
        w == MaxWidth([i \in 1..Len(t.rows) |-> t.rows[i].cells])
    IN /\ t.present
       /\ Len(df.rows) = Len(t.rows)
       /\ df.cols = <<"serial_no">> \o (IF h # <<>> THEN h ELSE [j \in 1..w |-> ToString(j - 1)])
       /\ \A i \in 1..Len(t.rows) : \A j \in 1..Len(t.rows[i].cells) :
             df.rows[i][j + 1] = t.rows[i].cells[j]
\* C20: a table without head cells gets the headers Column_1..Column_N, N
\* the cell count of its first body row, a table with head cells its head
\* texts in order: in extract_table_js, in the multi-table extraction, whose
\* sheets carry these headers, and in the header read after convergence,
\* whose sheet is built with them.
C20_HeaderSynthesis ==
    /\ [](/\ HeadersAsSpecified
          /\ \A n \in DOMAIN sheets \cap MultiSheetNames :
                \E t \in DomTablesAt : IsSheetOfTable(sheets[n], t))
    /\ [][(pc = "sus_done" /\ pc' = "stop_check" /\ mode = "table" /\ combined # <<>>)
            => \/ sheets'["Table"] = SheetOfRows(combined, SpecifiedHeaders(dom_table))
               \/ sheets'["Table"] = SheetOfRows(combined, <<>>)]_vars
\* a sheet of the multi-table extraction with synthesized headers beside one
\* with head texts, at the final save
C20_Witness ==
    /\ pc = "final_save"
    /\ DOMAIN sheets = {"Table_1", "Table_2"}
    /\ sheets["Table_1"].cols = <<"serial_no", "Column_1", "Column_2">>
    /\ sheets["Table_2"].cols = <<"serial_no", "Name", "Value">>

\* the branch that belongs to a table count and the probe results of a
\* detection pass, whatever else the state of the run is
BranchOfProbes(n, p) ==
    LET hasTable == n > 0 /\ ~NoneMeets(p.table, 1)
        hasList  == /\ ~hasTable
                    /\ \/ ~NoneMeets(p.list, 2)
                       \/ /\ ~p.census.raises
                          /\ \E i \in 1..Len(p.census.counts) :
                                p.census.counts[i][2] >= 3 /\ p.census.counts[i][1] # <<>>
                       \/ ~p.prose.raises /\ p.prose.p > 6 /\ p.prose.h > 0
        hasNext  == ~NoneMeets(p.css, 1) \/ ~NoneMeets(p.xp, 1)
    IN CASE n > 1 -> "multi_table"
         [] n <= 1 /\ hasTable /\ hasNext -> "click_table"
         [] n <= 1 /\ hasTable /\ ~hasNext -> "scroll_table"
         [] n <= 1 /\ ~hasTable /\ hasList -> "scroll_list"
         [] n <= 1 /\ ~hasTable /\ ~hasList /\ hasNext -> "click_list"
         [] OTHER -> "fail"
\* C21: the branch of the ladder is a function of the table count and of the
\* probe results of the page alone: runs that meet the same results enter the
\* same branch, whenever the flag was set and whatever the rest of the state.
C21_LadderDeterminism ==
    [][(pc = "branch" /\ pc' # "branch")
        => branches' = Append(branches, BranchOfProbes(table_count, probed))]_vars
\* the ladder chose the list branch in a run whose flag was already set
\* during the virtualized strategy
C21_Witness ==
    /\ branches = <<"virtualized", "scroll_list">>
    /\ stop_seen \in {"fp_loop", "fp_cand"}
    /\ stop_event

\* C22: every candidate container has a deduplicated result of its own: after
\* an extraction that brought a new name, the result of the candidate under
\* scan holds every name the page shows, also the names met under an earlier
\* candidate; and at the end of a candidate the larger result is kept.
C22_IndependentCandidateResults ==
    [][/\ (pc = "fp_scroll" /\ pc' # "fp_scroll" /\ fp_seen' # fp_seen)
          => StockNames(dom_stocks) \subseteq SeqToSet(CompanyKeys(collected'))
       /\ (pc = "fp_cand_end" /\ pc' # "fp_cand_end")
          => /\ Len(best_result') >= Len(collected)
             /\ Len(best_result') >= Len(best_result)
             /\ best_result' \in {best_result, collected}]_vars

\* C23: with several tables every index is extracted on its own: while the
\* flag is unset, handling the table at one index (absent, failing, empty or
\* with rows that do not match its header count) always leads to the next
\* index, adds at most the sheet of that index and changes no other sheet.
C23_TablesIndependent ==
    [][(pc = "mt_loop" /\ mt_idx < table_count /\ ~stop_event /\
        <<pc, mt_idx, sheets>>' # <<pc, mt_idx, sheets>>)
       => /\ pc' = "mt_loop"
          /\ mt_idx' = mt_idx + 1
          /\ DOMAIN sheets' \subseteq DOMAIN sheets \cup {SheetName(mt_idx)}
          /\ \A n \in DOMAIN sheets \ {SheetName(mt_idx)} : sheets'[n] = sheets[n]]_vars

\* the step is a Start press (on_start, line 926)
StartPressed == start_btn = "normal" /\ start_btn' = "disabled"
\* what the run itself does to the page, the network and the sink
RunFootprint ==
    << pc, outcome, sheets, partial_collected, run_saves, sink_failed,
       browser_open, late_drives, discovered >>
\* C24: the end of the run is linear.  A check after convergence that finds
\* the flag set ends the run Cancelled: it makes the partial save of the
\* checkpoint store (written unless the store is empty or the writer fails),
\* leaves the sheets as they are and makes no final save.  The image phase is
\* entered only from a check that found the flag unset, the final save only
\* from the image phase, Finalized only from the final save; and once the run
\* has ended it does nothing more: only a Start press, which begins another
\* run, leaves the terminal state.
C24_LinearEnd ==
    [][/\ (pc = "stop_check" /\ stop_event /\ pc' # pc)
          => /\ pc' = "done" /\ outcome' = "Cancelled"
             /\ sheets' = sheets /\ partial_collected' = partial_collected
             /\ run_saves' \in {run_saves, Append(run_saves, partial_collected)}
             /\ (partial_collected # NoSheets /\ sink_failed' = sink_failed)
                   => run_saves' = Append(run_saves, partial_collected)
             /\ partial_collected = NoSheets => run_saves' = run_saves
       /\ (pc' = "images" /\ pc # "images") => (pc = "stop_check" /\ ~stop_event)
       /\ (pc' = "final_save" /\ pc # "final_save") => pc = "images"
       /\ (outcome' = "Finalized" /\ outcome # "Finalized") => pc = "final_save"
       /\ pc = "done" => \/ UNCHANGED RunFootprint
                         \/ StartPressed /\ pc' = "start"]_vars
\* a run whose loops never saw the flag is cancelled by the check after
\* convergence and has written its one partial save
C24_Witness ==
    /\ outcome = "Cancelled"
    /\ stop_seen = ""
    /\ sheets # NoSheets
    /\ run_saves = << partial_collected >>

\* C25: the result set of a convergence loop is append-only and ordered by
\* discovery: every step of the universal loop leaves the records held
\* before it as a prefix of the records held after it, and so does every step
\* of the loop of one candidate container, whatever the page shows meanwhile.
C25_AppendOnly ==
    [][/\ (InScrollLoop /\ pc' \in {"sus_check", "sus_cycle", "sus_done"})
          => IsPrefix(combined, combined')
       /\ (pc \in {"fp_loop", "fp_scroll"} /\ pc' \in {"fp_loop", "fp_scroll", "fp_cand_end"})
          => IsPrefix(collected, collected')]_vars
\* the loop of a candidate ends holding, first, a record that the page no
\* longer shows and, last, a record merged from the page shown now
C25_Witness ==
    /\ pc = "fp_cand_end"
    /\ Len(collected) = 3
    /\ collected[1] \notin SeqToSet(StockRows(dom_stocks))
    /\ collected[3] \in SeqToSet(StockRows(dom_stocks))

\* a name trimmed and lower-cased
NormalName(c) == LowerStr(Strip(c.company_name))
\* C26: in the virtualized strategy a record is identified by its name,
\* trimmed and lower-cased: neither the result of the candidate under scan
\* nor the result the strategy returns holds a record whose normalized name
\* is empty, or two records with the same normalized name.
C26_NameIdentity ==
    \A res \in {collected, best_result} :
        /\ \A i \in 1..Len(res) : NormalName(res[i]) # <<>>
        /\ \A i, j \in 1..Len(res) : NormalName(res[i]) = NormalName(res[j]) => i = j
\* the strategy returns two records, the first met as "Abc", while the page
\* shows the same name written otherwise
C26_Witness ==
    /\ pc = "fp_done"
    /\ Len(best_result) = 2
    /\ best_result[1].company_name = <<"A", "b", "c">>
    /\ dom_stocks = <<S1b, S2>>

\* the entries of a census that name a class set found at least 3 times
Repeated(counts) == { i \in 1..Len(counts) : counts[i][2] >= 3 /\ counts[i][1] # <<>> }
\* C27: when no common list candidate matched and the census succeeded, the
\* list selector is the class set repeated most often among those found at
\* least 3 times; when the census gave nothing (it failed, or no class set
\* reached 3) the selector is "body" exactly when the prose test passes, and
\* nothing otherwise.
C27_CensusMostRepeated ==
    (pc \in {"detect_next", "branch"} /\ pulsed /\ NoneMeets(probed.list, 2))
    => LET counts == probed.census.counts
           rep == IF probed.census.raises THEN {} ELSE Repeated(counts)
       IN IF rep # {}
          THEN \E i \in rep :
                  /\ \A j \in rep : counts[j][2] <= counts[i][2]
                  /\ list_sel = "." \o Join(counts[i][1], ".")
          ELSE list_sel = IF ~probed.prose.raises /\ probed.prose.p > 6 /\ probed.prose.h > 0
                          THEN "body" ELSE None

InContainerScan == pc \in {"fp_cand", "fp_loop", "fp_scroll", "fp_cand_end"}
\* C28: container_scroll_until_stable ends whatever the page does, without
\* cancellation.  The candidate list is finite, holds no selector twice and
\* does not change; the index of the candidate under scan never goes back and
\* advances when a candidate ends that does not end the strategy, so each
\* candidate is scanned at most once.  A container scroll starts only below
\* MAX_ATTEMPTS scrolls, below the stagnation threshold and below the
\* per-container record cap, and counts one more scroll; a candidate is
\* scanned only while the best result is below the large-result threshold.
C28_ContainerScanBounded ==
    /\ [](InContainerScan =>
            /\ KeysUnique(candidates)
            /\ ci \in 1..(Len(candidates) + 1)
            /\ scrolls <= MAX_ATTEMPTS)
    /\ [][/\ (InContainerScan /\ pc' \in {"fp_cand", "fp_loop", "fp_scroll", "fp_cand_end"})
             => (candidates' = candidates /\ ci' >= ci)
          /\ (pc = "fp_cand" /\ pc' = "fp_loop")
             => (ci <= Len(candidates) /\ Len(best_result) < LARGE_RESULT /\ scrolls' = 0)
          /\ (pc = "fp_scroll" /\ pc' # pc)
             => /\ scrolls < MAX_ATTEMPTS
                /\ fp_stagnant < FP_STAGNANT
                /\ Len(collected) < CONTAINER_CAP
                /\ scrolls' = scrolls + 1
                /\ pc' \in {"fp_loop", "fp_cand_end"}
          /\ (pc = "fp_loop" /\ pc' # pc)
             => (pc' \in {"fp_scroll", "fp_cand_end"} /\ scrolls' = scrolls)
          /\ (pc = "fp_cand_end" /\ pc' # pc)
             => \/ pc' = "fp_done"
                \/ pc' = "fp_cand" /\ ci' = ci + 1 /\ Len(best_result') < LARGE_RESULT
          /\ (pc = "fp_cand" /\ pc' # pc) => pc' \in {"fp_loop", "fp_done"}]_vars
\* an uncancelled strategy has ended after scanning each of several candidates,
\* the last of them for the full number of scrolls
C28_Witness ==
    /\ pc = "fp_done"
    /\ ~stop_event
    /\ Len(candidates) >= 2
    /\ ci = Len(candidates) + 1
    /\ scrolls = MAX_ATTEMPTS

\* C29: however run() ends (browser start failure, navigation failure, no
\* shape, cancellation, finalization, unexpected exception), it has released
\* the browser session: a run that has returned holds no handle, and a run
\* has an outcome only when it has returned.
C29_BrowserReleased ==
    /\ pc = "done" =>
          /\ ~browser_open
          /\ outcome \in {"BrowserFailed", "NavFailed", "NoShape", "Cancelled",
                          "Finalized", "Fatal"}
    /\ outcome # "" => pc = "done"
\* a run that had chosen a strategy was ended by an unexpected exception and
\* holds no handle
C29_Witness ==
    /\ pc = "done"
    /\ outcome = "Fatal"
    /\ branches # <<>>
    /\ ~browser_open

\* C30: the checkpoint store mirrors the result sheets wherever the scrape
\* task can be interrupted: it has the same sheet names and, under each name,
\* the same records; so a save of the run or of the host that writes a
\* workbook writes the sheets held at that moment (a Start press begins a run
\* with a store, sheets and a workbook of its own).
C30_CheckpointMirrorsSheets ==
    /\ [](/\ DOMAIN partial_collected = DOMAIN sheets
          /\ \A n \in DOMAIN sheets : partial_collected[n] = sheets[n])
    /\ [][~StartPressed =>
            /\ run_saves' # run_saves => run_saves' = Append(run_saves, sheets')
            /\ host_saves' # host_saves => host_saves' = Append(host_saves, sheets')
            /\ excel_file' # excel_file => excel_file'.sheets = sheets']_vars
\* after the image phase, before the final save, the host's partial save has
\* written the sheets with their image columns
C30_Witness ==
    /\ pc = "final_save"
    /\ host_saves # <<>>
    /\ \E n \in DOMAIN sheets : "image_status" \in SeqToSet(sheets[n].cols)
    /\ host_saves[Len(host_saves)] = sheets

\* pressing STOP would run the branch of on_stop that enables Start again
StopEnablesStart == stop_btn = "normal" /\ holder_evt = "event"
\* C31: the Start/STOP controls never get stuck: whenever no scrape task is
\* running (before the first run, after a run has ended, after a STOP, after
\* a Start press rejected for a blank URL or filename), the Start button is
\* enabled or pressing STOP enables it.
C31_StartAvailable ==
    pc \in {"idle", "done"} => (start_btn = "normal" \/ StopEnablesStart)

\* the field names of a row of n cells: header i, or Column_i beyond the headers
FieldNames(headers, n) ==
    [j \in 1..n |-> IF j <= Len(headers) THEN headers[j] ELSE ColumnName(j)]
\* row i of the sheet holds one field per cell of the row, cell j under its
\* field name, and besides them only serial_no, links and images
NoCellLost(df, i, cells, headers) ==
    LET names == FieldNames(headers, Len(cells))
        held == { k \in 1..Len(df.cols) : df.cols[k] # "serial_no" /\ df.rows[i][k] # "NaN" }
    IN /\ Cardinality(held) = Len(cells) + 2
       /\ \A j \in 1..Len(cells) :
             \E k \in held : df.cols[k] = names[j] /\ df.rows[i][k] = cells[j]
\* C32: when the converged rows of a single table become the sheet Table, no
\* cell is lost: for the header list read at that moment, every row of the
\* sheet holds one field per cell of its row, cell i under header i or under
\* Column_i beyond the headers, besides the links and images fields.
C32_NoCellLost ==
    [][(pc = "sus_done" /\ mode = "table" /\ combined # <<>> /\ pc' = "stop_check")
        => \E raises \in BOOLEAN :
              LET headers == ReadHeaders(dom_table, raises)
                  df == sheets'["Table"]
              IN /\ Len(df.rows) = Len(combined)
                 /\ \A i \in 1..Len(combined) :
                       NoCellLost(df, i, combined[i].cells, headers)]_vars
====
